---- MODULE Spec2Model ----
(***************************************************************************)
(* Model of app.py, the homework checking form application: the AppState  *)
(* record, its whole-file JSON persistence with one backup, the page and  *)
(* problem range logic, the summary builder and the view router.          *)
(*                                                                         *)
(* Representation.                                                         *)
(*   Optional[int]   None is <<>>, the integer n is <<n>>.                 *)
(*   str             a sequence of one-character strings.                  *)
(*   dict            a function whose domain is the set of keys; insertion *)
(*                   order is not kept (it is only observable when two     *)
(*                   keys have the same int() value, which keys made by    *)
(*                   str(i) never have).                                   *)
(*   file            <<>> when the path does not exist, <<doc>> when it    *)
(*                   holds the JSON document doc.                          *)
(*   status          "done" = 완료, "wrong" = 틀림, "fixed" = 틀렸지만 고침,  *)
(*                   "question" = 질문.                                     *)
(* One user action (a widget event, the script run it triggers and the    *)
(* rerun that follows) is one action of the model.                        *)
(***************************************************************************)
EXTENDS Integers, Sequences, FiniteSets, TLC

\* ---------------------------------------------------------------- bounds
MaxPage == 2
MaxProblems == 2
MaxOps == 5

\* ------------------------------------------------------ program constants
MaxSpan == 500

STATUSES == <<"done", "wrong", "fixed", "question">>

StatusSet == {STATUSES[i] : i \in 1..Len(STATUSES)}

\* ------------------------------------------------------------ Optional[T]
None == <<>>

Some(x) == <<x>>

Val(o) == o[1]

\* ------------------------------------------------------------ str helpers
\* the characters str.strip() removes (those with str.isspace()): space, TAB,
\* LF, CR, FF, then VT and FS, GS, RS, US (U+000B, U+001C..U+001F), then
\* NEL, NBSP and OGHAM SPACE MARK (U+0085, U+00A0, U+1680).  The remaining
\* ones, U+2000..U+200A, U+2028, U+2029, U+202F, U+205F and U+3000, cannot be
\* written in a string of a module and are outside the alphabet of the model.
Whitespace == {" ", "\t", "\n", "\r", "\f",
               "", "", "", "", "",
               "", " ", " "}

RECURSIVE lstrip(_)
lstrip(s) == IF s # <<>> /\ Head(s) \in Whitespace THEN lstrip(Tail(s)) ELSE s

RECURSIVE rstrip(_)
rstrip(s) == IF s # <<>> /\ s[Len(s)] \in Whitespace
             THEN rstrip(SubSeq(s, 1, Len(s) - 1)) ELSE s

strip(s) == rstrip(lstrip(s))

DigitChars == <<"0", "1", "2", "3", "4", "5", "6", "7", "8", "9">>

\* str(i) for a non-negative integer: its decimal digits
RECURSIVE str(_)
str(n) == IF n < 10 THEN <<DigitChars[n + 1]>>
          ELSE str(n \div 10) \o <<DigitChars[(n % 10) + 1]>>

DigitVal(c) == CHOOSE d \in 0..9 : DigitChars[d + 1] = c

\* int(k) for a string of decimal digits
RECURSIVE int(_)
int(k) == IF Len(k) = 1 THEN DigitVal(k[1])
          ELSE 10 * int(SubSeq(k, 1, Len(k) - 1)) + DigitVal(k[Len(k)])

\* ------------------------------------------------------------- data model
Problem(status, memo) == [status |-> status, memo |-> memo]

DefaultProblem == Problem("done", <<>>)

PageUnit == [done |-> FALSE, start_problem |-> None, end_problem |-> None,
             problems |-> <<>>]

AppState == [book_name |-> <<>>, start_page |-> None, end_page |-> None,
             pages |-> <<>>]

\* ------------------------------------------------------------ persistence
JNull == [t |-> "null"]

JInt(n) == [t |-> "int", v |-> n]

\* json.dump of an Optional[int]
json_dump_opt(o) == IF o = None THEN JNull ELSE JInt(Val(o))

\* json.load of a number or null
json_load_opt(j) == IF j.t = "null" THEN None ELSE Some(j.v)

\* the dict `raw` that save_state builds and json.dump writes
raw_of(st) ==
    [book_name  |-> st.book_name,
     start_page |-> json_dump_opt(st.start_page),
     end_page   |-> json_dump_opt(st.end_page),
     pages      |-> [pk \in DOMAIN st.pages |->
                       [done          |-> st.pages[pk].done,
                        start_problem |-> json_dump_opt(st.pages[pk].start_problem),
                        end_problem   |-> json_dump_opt(st.pages[pk].end_problem),
                        problems      |-> [k \in DOMAIN st.pages[pk].problems |->
                             [status |-> st.pages[pk].problems[k].status,
                              memo   |-> st.pages[pk].problems[k].memo]]]]]

\* save_state: <<primary file, backup file>> after the call
save_state(st, f, b) ==
    <<Some(raw_of(st)), IF f # None THEN f ELSE b>>

\* dict.get(key, default) on a JSON object
get(obj, key, default) == IF key \in DOMAIN obj THEN obj[key] ELSE default

\* faulty variant: the status read back is always the default
load_problem_default_status(v) == Problem("done", get(v, "memo", <<>>))

load_problem(v) == Problem(get(v, "status", "done"), get(v, "memo", <<>>))

load_unit(pu) ==
    [done          |-> get(pu, "done", FALSE),
     start_problem |-> json_load_opt(get(pu, "start_problem", JNull)),
     end_problem   |-> json_load_opt(get(pu, "end_problem", JNull)),
     problems      |-> LET ps == get(pu, "problems", <<>>)
                       IN  [k \in DOMAIN ps |-> load_problem(ps[k])]]

\* load_state: None when the primary file does not exist
load_state(f) ==
    IF f = None THEN None
    ELSE LET raw == Val(f)
             ps  == get(raw, "pages", <<>>)
         IN  Some([book_name  |-> get(raw, "book_name", <<>>),
                   start_page |-> json_load_opt(get(raw, "start_page", JNull)),
                   end_page   |-> json_load_opt(get(raw, "end_page", JNull)),
                   pages      |-> [pk \in DOMAIN ps |-> load_unit(ps[pk])]])

\* faulty variant: only the primary file is removed
reset_disk_primary_only(f, b) == <<None, b>>

\* reset_disk: <<primary file, backup file>> after the call
reset_disk(f, b) == <<None, None>>

\* ------------------------------------------------------------ range logic
clamp_pages(sp, ep) == IF sp <= ep THEN <<sp, ep>> ELSE <<ep, sp>>

ensure_pages_initialized(st) ==
    IF st.start_page = None \/ st.end_page = None THEN st
    ELSE LET c    == clamp_pages(Val(st.start_page), Val(st.end_page))
             keys == {str(p) : p \in c[1]..c[2]}
         IN  [st EXCEPT !.start_page = Some(c[1]),
                        !.end_page   = Some(c[2]),
                        !.pages      = [k \in (DOMAIN st.pages) \cup keys |->
                                          IF k \in DOMAIN st.pages
                                          THEN st.pages[k] ELSE PageUnit]]

\* faulty variant: the first loop overwrites the problems already present
add_missing_overwrite(problems, keep) ==
    [k \in (DOMAIN problems) \cup keep |-> DefaultProblem]

\* the first loop of apply_problem_range: create the missing problems
add_missing(problems, keep) ==
    [k \in (DOMAIN problems) \cup keep |->
        IF k \in DOMAIN problems THEN problems[k] ELSE DefaultProblem]

\* faulty variant: the second loop removes nothing
drop_outside_nothing(problems, keep) == problems

\* the second loop of apply_problem_range: pop the keys not in keep
drop_outside(problems, keep) ==
    [k \in {x \in DOMAIN problems : x \in keep} |-> problems[k]]

\* faulty variant: the span test lets one more number through
span_too_big_late(lo, hi) == (hi - lo) > MaxSpan + 1

\* the span test of apply_problem_range
span_too_big(lo, hi) == (hi - lo) > MaxSpan

\* apply_problem_range: ok = FALSE when it raises ValueError (unit untouched)
apply_problem_range(unit, start_n, end_n) ==
    IF start_n <= 0 \/ end_n <= 0 THEN [ok |-> FALSE, unit |-> unit]
    ELSE LET lo == IF start_n > end_n THEN end_n ELSE start_n
             hi == IF start_n > end_n THEN start_n ELSE end_n
         IN  IF span_too_big(lo, hi) THEN [ok |-> FALSE, unit |-> unit]
             ELSE LET keep == {str(i) : i \in lo..hi}
                  IN  [ok   |-> TRUE,
                       unit |-> [unit EXCEPT
                                   !.start_problem = Some(lo),
                                   !.end_problem   = Some(hi),
                                   !.problems =
                                      drop_outside(add_missing(unit.problems, keep), keep)]]

\* -------------------------------------------------------- summary builder
\* faulty variant: the problems are sorted as strings
RECURSIVE lex_le(_, _)
lex_le(a, b) ==
    IF a = <<>> THEN TRUE
    ELSE IF b = <<>> THEN FALSE
    ELSE IF Head(a) = Head(b) THEN lex_le(Tail(a), Tail(b))
    ELSE DigitVal(Head(a)) < DigitVal(Head(b))

sort_le_string(a, b) == lex_le(a, b)

\* the sort key of build_summary: key=lambda kv: int(kv[0])
sort_le(a, b) == int(a) <= int(b)

\* sorted(unit.problems.items(), key=...), as the sequence of keys
RECURSIVE sorted_keys(_)
sorted_keys(S) ==
    IF S = {} THEN <<>>
    ELSE LET m == CHOOSE x \in S : \A y \in S : sort_le(x, y)
         IN  <<m>> \o sorted_keys(S \ {m})

\* f"[p.{p} {num}번]"
tag(p, num) == [p |-> p, num |-> num]

MemoMissing == <<"(", "-", ")">>

\* f"{tag} {memo}" if memo else f"{tag} (메모 없음)"
ques_entry(p, num, pr) ==
    LET memo == strip(pr.memo)
    IN  [tag |-> tag(p, num), text |-> IF memo # <<>> THEN memo ELSE MemoMissing]

\* what one page appends to the list of the given status
page_entries(p, unit, status) ==
    LET nums == sorted_keys(DOMAIN unit.problems)
        sel  == SelectSeq(nums, LAMBDA n : unit.problems[n].status = status)
    IN  [i \in 1..Len(sel) |->
            IF status = "question"
            THEN ques_entry(p, sel[i], unit.problems[sel[i]])
            ELSE tag(p, sel[i])]

\* range(sp, ep + 1): the page numbers build_summary visits, in order
page_range(sp, ep) == [i \in 1..(ep - sp + 1) |-> sp + i - 1]

\* the loop `for p in range(sp, ep + 1)` for one of the three lists
RECURSIVE collect(_, _, _)
collect(st, ps, status) ==
    IF ps = <<>> THEN <<>>
    ELSE LET p  == Head(ps)
             pk == str(p)
         IN  (IF pk \notin DOMAIN st.pages \/ st.pages[pk].problems = <<>>
              THEN <<>>
              ELSE page_entries(p, st.pages[pk], status))
             \o collect(st, Tail(ps), status)

\* `sep.join(xs) if xs else "없음"`
join_or_none(xs) == IF xs # <<>> THEN [none |-> FALSE, items |-> xs]
                    ELSE [none |-> TRUE, items |-> <<>>]

BookMissing == <<"(", "?", ")">>

\* build_summary; the date line is left out
build_summary(st) ==
    IF st.start_page = None \/ st.end_page = None
    THEN [range_set |-> FALSE]
    ELSE LET c == clamp_pages(Val(st.start_page), Val(st.end_page))
         IN  [range_set |-> TRUE,
              book  |-> IF st.book_name # <<>> THEN st.book_name ELSE BookMissing,
              sp    |-> c[1],
              ep    |-> c[2],
              wrong |-> join_or_none(collect(st, page_range(c[1], c[2]), "wrong")),
              fixed |-> join_or_none(collect(st, page_range(c[1], c[2]), "fixed")),
              ques  |-> join_or_none(collect(st, page_range(c[1], c[2]), "question"))]

\* ------------------------------------------------------------ view router
Views == {"home", "page", "problem", "summary"}

\* `not pk or pk not in state.pages`
page_missing(st, pk) == pk = None \/ Val(pk) = <<>> \/ Val(pk) \notin DOMAIN st.pages

\* `not num or num not in unit.problems`
problem_missing(unit, num) ==
    num = None \/ Val(num) = <<>> \/ Val(num) \notin DOMAIN unit.problems

\* the guard at the top of the page view: the view shown after its goto
page_guard(st, pk) == IF page_missing(st, pk) THEN "home" ELSE "page"

\* the guards at the top of the problem view: the view shown after its goto
problem_guard(st, pk, num) ==
    IF page_missing(st, pk) THEN "home"
    ELSE IF problem_missing(st.pages[Val(pk)], num) THEN page_guard(st, pk)
    ELSE "problem"

\* the view the script settles on for session_state.view = v
Route(v, st, pk, num) ==
    CASE v = "home"    -> "home"
      [] v = "page"    -> page_guard(st, pk)
      [] v = "problem" -> problem_guard(st, pk, num)
      [] v = "summary" -> "summary"
      [] OTHER         -> "home"

\* ------------------------------------------------------------------ state
VARIABLES
    state,           \* st.session_state.state, the AppState
    file,            \* STATE_FILE
    bak,             \* BAK_FILE
    view,            \* st.session_state.view
    active_page,     \* st.session_state.active_page
    active_problem,  \* st.session_state.active_problem
    ask_reset,       \* st.session_state.ask_reset
    confirm_reset,   \* st.session_state.confirm_reset
    error,           \* TRUE when the last run showed st.error
    last,            \* the user action handled last: its name, the view it
                     \* was made in and, for a range application, its inputs
    nops             \* the number of user actions handled so far

vars == <<state, file, bak, view, active_page, active_problem, ask_reset,
          confirm_reset, error, last, nops>>

\* ----------------------------------------------------------------- inputs
PageInputs == 1..MaxPage

ProblemInputs == 9..(8 + MaxProblems)

RangeInputs == {1, MaxSpan + 1, MaxSpan + 2}

\* arguments of a direct call of apply_problem_range
ApplyArgs == {0 - 1, 0, 2, MaxSpan + 3}

BookInputs == {<<>>, <<" ", "b", "\r">>}

MemoInputs == {<<>>, <<"\f">>, <<"w", " ">>}

AllKeys == {str(i) : i \in ProblemInputs}

RangeKeys == {str(1), str(MaxSpan + 1)}

\* every action records the user action it handles and counts it; the
\* exploration stops after MaxOps user actions
Handled(op, s, e) ==
    /\ nops < MaxOps
    /\ nops' = nops + 1
    /\ last' = [op |-> op, from |-> view, s |-> s, e |-> e]

\* the page shown by the page and problem views
unit_of(st, pk) == st.pages[Val(pk)]

\* --------------------------------------------------------- initialisation
Init ==
    /\ state = AppState
    /\ file = None
    /\ bak = None
    /\ view = "home"
    /\ active_page = None
    /\ active_problem = None
    /\ ask_reset = FALSE
    /\ confirm_reset = FALSE
    /\ error = FALSE
    /\ last = [op |-> "init", from |-> "home", s |-> 0, e |-> 0]
    /\ nops = 0

\* a fresh session (browser reload): the block `if "state" not in
\* st.session_state` and the first run of the script
NewSession ==
    LET disk == load_state(file)
    IN  /\ state' = ensure_pages_initialized(IF disk # None THEN Val(disk) ELSE AppState)
        /\ ask_reset' = (disk # None)
        /\ view' = "home"
        /\ active_page' = None
        /\ active_problem' = None
        /\ confirm_reset' = FALSE
        /\ error' = FALSE
        /\ Handled("new_session", 0, 0)
        /\ UNCHANGED <<file, bak>>

\* ------------------------------------------------------ prompts and top bar
\* goto(view, page, problem) followed by the rerun and its view guards
goto(v, st, pk, num) ==
    /\ active_page' = (IF pk # None THEN pk ELSE active_page)
    /\ active_problem' = (IF num # None THEN num ELSE active_problem)
    /\ view' = Route(v, st, active_page', active_problem')

StartupResetYes ==
    /\ ask_reset
    /\ file' = reset_disk(file, bak)[1]
    /\ bak' = reset_disk(file, bak)[2]
    /\ state' = AppState
    /\ ask_reset' = FALSE
    /\ view' = "home"
    /\ error' = FALSE
    /\ Handled("startup_reset", 0, 0)
    /\ UNCHANGED <<active_page, active_problem, confirm_reset>>

StartupResetNo ==
    /\ ask_reset
    /\ ask_reset' = FALSE
    /\ error' = FALSE
    /\ Handled("startup_keep", 0, 0)
    /\ UNCHANGED <<state, file, bak, view, active_page, active_problem, confirm_reset>>

NavHome ==
    /\ goto("home", state, None, None)
    /\ error' = FALSE
    /\ Handled("nav_home", 0, 0)
    /\ UNCHANGED <<state, file, bak, ask_reset, confirm_reset>>

NavSummary ==
    /\ goto("summary", state, None, None)
    /\ error' = FALSE
    /\ Handled("nav_summary", 0, 0)
    /\ UNCHANGED <<state, file, bak, ask_reset, confirm_reset>>

ClickResetAll ==
    /\ confirm_reset' = TRUE
    /\ error' = FALSE
    /\ Handled("click_reset", 0, 0)
    /\ UNCHANGED <<state, file, bak, view, active_page, active_problem, ask_reset>>

ConfirmResetRun ==
    /\ confirm_reset
    /\ file' = reset_disk(file, bak)[1]
    /\ bak' = reset_disk(file, bak)[2]
    /\ state' = AppState
    /\ confirm_reset' = FALSE
    /\ goto("home", state', None, None)
    /\ error' = FALSE
    /\ Handled("confirm_reset", 0, 0)
    /\ UNCHANGED ask_reset

ConfirmResetCancel ==
    /\ confirm_reset
    /\ confirm_reset' = FALSE
    /\ error' = FALSE
    /\ Handled("cancel_reset", 0, 0)
    /\ UNCHANGED <<state, file, bak, view, active_page, active_problem, ask_reset>>

\* save_state(state) on the new in-memory state
Save(st) ==
    /\ file' = save_state(st, file, bak)[1]
    /\ bak' = save_state(st, file, bak)[2]

\* does the home view list pages (it stops before the list otherwise)
range_set(st) == st.start_page # None /\ st.end_page # None

\* the pages the home view lists
listed(st) ==
    LET c == clamp_pages(Val(st.start_page), Val(st.end_page))
    IN  {str(p) : p \in c[1]..c[2]}

\* -------------------------------------------------------------- home view
\* the body of `if saved:` of setup_form
home_save(st, book, sp, ep) ==
    LET c == clamp_pages(sp, ep)
    IN  ensure_pages_initialized(
            [st EXCEPT !.book_name = strip(book),
                       !.start_page = Some(c[1]),
                       !.end_page = Some(c[2])])

HomeSave(Books, Pages) ==
    /\ view = "home"
    /\ \E book \in Books, sp \in Pages, ep \in Pages :
          /\ state' = home_save(state, book, sp, ep)
          /\ Save(state')
    /\ error' = FALSE
    /\ Handled("home_save", 0, 0)
    /\ UNCHANGED <<view, active_page, active_problem, ask_reset, confirm_reset>>

\* unit.done = new_done
set_done(st, pk, d) == [st EXCEPT !.pages[pk].done = d]

HomeToggleDone ==
    /\ view = "home"
    /\ range_set(state)
    /\ \E pk \in listed(state) :
          /\ state' = set_done(state, pk, ~state.pages[pk].done)
          /\ Save(state')
    /\ error' = FALSE
    /\ Handled("home_done", 0, 0)
    /\ UNCHANGED <<view, active_page, active_problem, ask_reset, confirm_reset>>

HomeEnterPage ==
    /\ view = "home"
    /\ range_set(state)
    /\ \E pk \in listed(state) :
          /\ Save(state)
          /\ goto("page", state, Some(pk), None)
    /\ error' = FALSE
    /\ Handled("enter_page", 0, 0)
    /\ UNCHANGED <<state, ask_reset, confirm_reset>>

\* -------------------------------------------------------------- page view
PageBack ==
    /\ view = "page"
    /\ Save(state)
    /\ goto("home", state, None, None)
    /\ error' = FALSE
    /\ Handled("page_back", 0, 0)
    /\ UNCHANGED <<state, ask_reset, confirm_reset>>

PageToggleDone ==
    /\ view = "page"
    /\ state' = set_done(state, Val(active_page), ~unit_of(state, active_page).done)
    /\ Save(state')
    /\ error' = FALSE
    /\ Handled("page_done", 0, 0)
    /\ UNCHANGED <<view, active_page, active_problem, ask_reset, confirm_reset>>

\* the handler of the apply button: try apply_problem_range, save on success
PageApply(Inputs) ==
    /\ view = "page"
    /\ \E sp \in Inputs, ep \in Inputs :
          LET r == apply_problem_range(unit_of(state, active_page), sp, ep)
          IN  /\ Handled("apply", sp, ep)
              /\ IF r.ok
                 THEN /\ state' = [state EXCEPT !.pages[Val(active_page)] = r.unit]
                      /\ Save(state')
                      /\ error' = FALSE
                 ELSE /\ error' = TRUE
                      /\ UNCHANGED <<state, file, bak>>
    /\ UNCHANGED <<view, active_page, active_problem, ask_reset, confirm_reset>>

PageClickProblem(Keys) ==
    /\ view = "page"
    /\ \E num \in Keys \cap DOMAIN unit_of(state, active_page).problems :
          /\ Save(state)
          /\ goto("problem", state, active_page, Some(num))
    /\ error' = FALSE
    /\ Handled("click_problem", 0, 0)
    /\ UNCHANGED <<state, ask_reset, confirm_reset>>

\* pr.status = new_status
set_status(st, pk, num, status) == [st EXCEPT !.pages[pk].problems[num].status = status]

PageSetStatus(Keys) ==
    /\ view = "page"
    /\ \E num \in Keys \cap DOMAIN unit_of(state, active_page).problems :
       \E new_status \in StatusSet :
          /\ new_status # unit_of(state, active_page).problems[num].status
          /\ state' = set_status(state, Val(active_page), num, new_status)
          /\ Save(state')
    /\ error' = FALSE
    /\ Handled("page_status", 0, 0)
    /\ UNCHANGED <<view, active_page, active_problem, ask_reset, confirm_reset>>

\* ----------------------------------------------------------- problem view
ProblemBack ==
    /\ view = "problem"
    /\ Save(state)
    /\ goto("page", state, active_page, None)
    /\ error' = FALSE
    /\ Handled("problem_back", 0, 0)
    /\ UNCHANGED <<state, ask_reset, confirm_reset>>

ProblemSetStatus ==
    /\ view = "problem"
    /\ \E new_status \in StatusSet :
          /\ new_status # unit_of(state, active_page).problems[Val(active_problem)].status
          /\ state' = set_status(state, Val(active_page), Val(active_problem), new_status)
          /\ Save(state')
    /\ error' = FALSE
    /\ Handled("problem_status", 0, 0)
    /\ UNCHANGED <<view, active_page, active_problem, ask_reset, confirm_reset>>

\* pr.memo = memo
set_memo(st, pk, num, memo) == [st EXCEPT !.pages[pk].problems[num].memo = memo]

\* faulty variant: the memo handler does not save
ProblemSetMemo_NoSave(Memos) ==
    /\ view = "problem"
    /\ \E memo \in Memos :
          /\ memo # unit_of(state, active_page).problems[Val(active_problem)].memo
          /\ state' = set_memo(state, Val(active_page), Val(active_problem), memo)
    /\ error' = FALSE
    /\ Handled("problem_memo", 0, 0)
    /\ UNCHANGED <<file, bak, view, active_page, active_problem, ask_reset, confirm_reset>>

ProblemSetMemo(Memos) ==
    /\ view = "problem"
    /\ \E memo \in Memos :
          /\ memo # unit_of(state, active_page).problems[Val(active_problem)].memo
          /\ state' = set_memo(state, Val(active_page), Val(active_problem), memo)
          /\ Save(state')
    /\ error' = FALSE
    /\ Handled("problem_memo", 0, 0)
    /\ UNCHANGED <<view, active_page, active_problem, ask_reset, confirm_reset>>

\* ----------------------------------------------------------- summary view
SummaryBack ==
    /\ view = "summary"
    /\ goto("home", state, None, None)
    /\ error' = FALSE
    /\ Handled("summary_back", 0, 0)
    /\ UNCHANGED <<state, file, bak, ask_reset, confirm_reset>>

\* --------------------------------------------------------- specifications
Next ==
    \/ NewSession
    \/ StartupResetYes
    \/ StartupResetNo
    \/ NavHome
    \/ NavSummary
    \/ ClickResetAll
    \/ ConfirmResetRun
    \/ ConfirmResetCancel
    \/ HomeSave(BookInputs, PageInputs)
    \/ HomeToggleDone
    \/ HomeEnterPage
    \/ PageBack
    \/ PageToggleDone
    \/ PageApply(ProblemInputs)
    \/ PageClickProblem(AllKeys)
    \/ PageSetStatus(AllKeys)
    \/ ProblemBack
    \/ ProblemSetStatus
    \/ ProblemSetMemo(MemoInputs)
    \/ SummaryBack

Spec == Init /\ [][Next]_vars

\* The range logic on one page with bounds around the span limit.
NextRange ==
    \/ HomeSave({<<>>}, 1..1)
    \/ HomeEnterPage
    \/ PageApply(RangeInputs)
    \/ PageSetStatus(RangeKeys)
    \/ PageClickProblem(RangeKeys)
    \/ ProblemSetMemo({<<"w">>})
    \/ ProblemBack

SpecRange == Init /\ [][NextRange]_vars

\* apply_problem_range as a function of its arguments: direct calls on the
\* unit of a page, with arguments the number inputs of the page view (which
\* have min_value=1) cannot deliver, next to the handler of the apply button.
ApplyStates ==
    LET s1 == home_save(AppState, <<>>, 1, 1)
        s2 == [s1 EXCEPT !.pages[str(1)] =
                  [apply_problem_range(@, 1, 2).unit EXCEPT
                      !.problems[str(1)].status = "wrong",
                      !.problems[str(2)].memo = <<"w">>]]
        s3 == [s1 EXCEPT !.pages[str(1)] =
                  apply_problem_range(@, 1, MaxSpan + 1).unit]
    IN  {s1, s2, s3}

InitApply ==
    /\ state \in ApplyStates
    /\ file = Some(raw_of(state))
    /\ bak = Some(raw_of(home_save(AppState, <<>>, 1, 1)))
    /\ view = "page"
    /\ active_page = Some(str(1))
    /\ active_problem = None
    /\ ask_reset = FALSE
    /\ confirm_reset = FALSE
    /\ error = FALSE
    /\ last = [op |-> "init", from |-> "home", s |-> 0, e |-> 0]
    /\ nops = 0

\* apply_problem_range(unit, start_n, end_n) called on the unit of the active
\* page; error records that it raised ValueError
CallApply(Args) ==
    /\ \E start_n \in Args, end_n \in Args :
          LET r == apply_problem_range(unit_of(state, active_page), start_n, end_n)
          IN  /\ Handled("apply", start_n, end_n)
              /\ state' = [state EXCEPT !.pages[Val(active_page)] = r.unit]
              /\ error' = ~r.ok
    /\ UNCHANGED <<file, bak, view, active_page, active_problem, ask_reset,
                   confirm_reset>>

NextApply ==
    \/ PageApply(RangeInputs)
    \/ CallApply(ApplyArgs)

SpecApply == InitApply /\ [][NextApply]_vars

\* The summary over several pages.  The session starts on the home view of
\* a book of MaxPage + 1 pages, each holding the problems 9 and 10 with
\* statuses and a memo set, everything saved: the state the page and problem
\* views leave after those edits and the way back to the home view.
SummaryUnit(s9, m9, s10) ==
    [apply_problem_range(PageUnit, 9, 10).unit EXCEPT
        !.problems[str(9)] = Problem(s9, m9),
        !.problems[str(10)] = Problem(s10, <<>>)]

SummaryState ==
    LET s0 == home_save(AppState, <<"b">>, 1, MaxPage + 1)
    IN  [s0 EXCEPT !.pages =
           [k \in DOMAIN s0.pages |->
              IF k = str(1) THEN SummaryUnit("wrong", <<>>, "wrong")
              ELSE IF k = str(2) THEN SummaryUnit("question", <<"w", " ">>, "wrong")
              ELSE SummaryUnit("wrong", <<>>, "fixed")]]

InitSummary ==
    /\ state = SummaryState
    /\ file = Some(raw_of(state))
    /\ bak = Some(raw_of(state))
    /\ view = "home"
    /\ active_page = Some(str(2))
    /\ active_problem = Some(str(9))
    /\ ask_reset = FALSE
    /\ confirm_reset = FALSE
    /\ error = FALSE
    /\ last = [op |-> "page_back", from |-> "page", s |-> 0, e |-> 0]
    /\ nops = 0

NextSummary ==
    \/ ClickResetAll
    \/ ConfirmResetRun
    \/ HomeSave({<<"b">>}, 1..(MaxPage + 1))
    \/ HomeEnterPage
    \/ PageBack
    \/ PageApply(ProblemInputs)
    \/ PageSetStatus(AllKeys)

SpecSummary == InitSummary /\ [][NextSummary]_vars

\* ================================================================= claims
\* the page unit an apply step worked on, before and after
OldUnit == unit_of(state, active_page)

NewUnit == unit_of(state', active_page)

Lo(s, e) == IF s <= e THEN s ELSE e

Hi(s, e) == IF s <= e THEN e ELSE s

AppliedOk == last'.op = "apply" /\ ~error'

\* C1: after a successful apply_problem_range(unit, s, e) the unit has
\* start_problem = min(s, e), end_problem = max(s, e) and the keys of its
\* problems are exactly the decimal strings of min(s, e)..max(s, e),
\* whatever keys it held before.
C1_ApplySetsExactRange ==
    [][AppliedOk =>
         LET lo == Lo(last'.s, last'.e)
             hi == Hi(last'.s, last'.e)
         IN  /\ NewUnit.start_problem = Some(lo)
             /\ NewUnit.end_problem = Some(hi)
             /\ DOMAIN NewUnit.problems = {str(i) : i \in lo..hi}]_vars

C1_Witness ==
    /\ last.op = "apply" /\ ~error
    /\ last.s > last.e
    /\ Cardinality(DOMAIN unit_of(state, active_page).problems) = last.s - last.e + 1

\* C2: reapplying a range to a page that has problems keeps the status and
\* memo of every number in both the old and the new range, gives every newly
\* covered number status done and an empty memo, and leaves no entry whose
\* number is outside the new range.
C2_ReapplyKeepsIntersection ==
    [][(AppliedOk /\ OldUnit.problems # <<>>) =>
         LET lo  == Lo(last'.s, last'.e)
             hi  == Hi(last'.s, last'.e)
             old == Val(OldUnit.start_problem)..Val(OldUnit.end_problem)
         IN  /\ \A i \in lo..hi :
                   NewUnit.problems[str(i)] =
                      IF i \in old THEN OldUnit.problems[str(i)]
                      ELSE Problem("done", <<>>)
             /\ \A k \in DOMAIN NewUnit.problems : int(k) \in lo..hi]_vars

C2_Witness ==
    /\ last.op = "apply" /\ ~error
    /\ \E k \in DOMAIN unit_of(state, active_page).problems :
          unit_of(state, active_page).problems[k].status # "done"
    /\ \E k \in DOMAIN unit_of(state, active_page).problems :
          unit_of(state, active_page).problems[k] = Problem("done", <<>>)

\* the bounds the claim calls invalid
Rejected(s, e) == s <= 0 \/ e <= 0 \/ Hi(s, e) - Lo(s, e) > 500

\* C3: apply_problem_range with a non-positive bound or a span over 500
\* fails with the invalid-range error and leaves the page unit, the rest of
\* the AppState and the saved files as they were.
C3_RejectedApplyChangesNothing ==
    [][(last'.op = "apply" /\ Rejected(last'.s, last'.e)) =>
         /\ error'
         /\ state' = state
         /\ file' = file
         /\ bak' = bak]_vars

C3_Witness ==
    /\ last.op = "apply" /\ error
    /\ last.s <= 0
    /\ unit_of(state, active_page).problems # <<>>
    /\ file # None

\* C4: no page's problems map ever holds more than 500 entries.
C4_AtMost500Problems ==
    \A pk \in DOMAIN state.pages :
        Cardinality(DOMAIN state.pages[pk].problems) <= 500

\* C5: once a page range is set, the keys of AppState.pages are exactly the
\* decimal strings of start_page..end_page, with start_page <= end_page.
C5_PagesExactlyCoverRange ==
    range_set(state) =>
        /\ Val(state.start_page) <= Val(state.end_page)
        /\ DOMAIN state.pages =
              {str(p) : p \in Val(state.start_page)..Val(state.end_page)}

\* the equivalence of two AppStates the round trip is about
SameAppState(a, b) ==
    /\ a.book_name = b.book_name
    /\ a.start_page = b.start_page
    /\ a.end_page = b.end_page
    /\ DOMAIN a.pages = DOMAIN b.pages
    /\ \A pk \in DOMAIN a.pages :
          /\ a.pages[pk].done = b.pages[pk].done
          /\ a.pages[pk].start_problem = b.pages[pk].start_problem
          /\ a.pages[pk].end_problem = b.pages[pk].end_problem
          /\ DOMAIN a.pages[pk].problems = DOMAIN b.pages[pk].problems
          /\ \A k \in DOMAIN a.pages[pk].problems :
                /\ a.pages[pk].problems[k].status = b.pages[pk].problems[k].status
                /\ a.pages[pk].problems[k].memo = b.pages[pk].problems[k].memo

\* C6: for every reachable AppState, save_state followed by load_state
\* returns an AppState with the same book name, page range, page keys and
\* per page the same done flag, problem bounds, problem keys, status and memo.
C6_SaveLoadRoundTrip ==
    LET loaded == load_state(save_state(state, file, bak)[1])
    IN  loaded # None /\ SameAppState(Val(loaded), state)

C6_Witness ==
    /\ state.book_name # <<>>
    /\ state.start_page # None
    /\ \E pk \in DOMAIN state.pages :
          /\ state.pages[pk].start_problem # None
          /\ \E k \in DOMAIN state.pages[pk].problems :
                state.pages[pk].problems[k].status # "done"

\* C8: after a reset, from the startup prompt or the confirm dialog, neither
\* file exists, the state is a fresh AppState, the view is home and the next
\* load_state returns None.
C8_ResetClearsEverything ==
    last.op \in {"startup_reset", "confirm_reset"} =>
        /\ file = None
        /\ bak = None
        /\ state = AppState
        /\ view = "home"
        /\ load_state(file) = None

C8_Witness ==
    /\ last.op = "confirm_reset"
    /\ last.from = "page"
    /\ file = None /\ bak = None

\* the tags of a section of the summary
TagsOf(status, sec) ==
    [i \in 1..Len(sec.items) |->
        IF status = "question" THEN sec.items[i].tag ELSE sec.items[i]]

SectionOf(r, status) ==
    CASE status = "wrong" -> r.wrong
      [] status = "fixed" -> r.fixed
      [] status = "question" -> r.ques

\* C9: with a page range set, each of the wrong, fixed and question sections
\* of build_summary lists exactly the problems of that status on the pages
\* start_page..end_page, by ascending page number and, within a page, by
\* ascending numeric problem number; with no range set it returns the
\* "range not set" message.
C9_SummaryListsByStatusInOrder ==
    LET r == build_summary(state)
    IN  IF ~range_set(state) THEN r = [range_set |-> FALSE]
        ELSE /\ r.range_set
             /\ \A status \in {"wrong", "fixed", "question"} :
                   LET sec  == SectionOf(r, status)
                       tags == TagsOf(status, sec)
                       rng  == Val(state.start_page)..Val(state.end_page)
                   IN  /\ sec.none = (sec.items = <<>>)
                       /\ \A i \in 1..Len(tags) :
                             /\ tags[i].p \in rng
                             /\ str(tags[i].p) \in DOMAIN state.pages
                             /\ tags[i].num \in DOMAIN state.pages[str(tags[i].p)].problems
                             /\ state.pages[str(tags[i].p)].problems[tags[i].num].status = status
                       /\ \A p \in rng : \A k \in DOMAIN state.pages[str(p)].problems :
                             state.pages[str(p)].problems[k].status = status =>
                                \E i \in 1..Len(tags) : tags[i] = [p |-> p, num |-> k]
                       /\ \A i \in 1..Len(tags) : \A j \in 1..Len(tags) :
                             i < j =>
                                \/ tags[i].p < tags[j].p
                                \/ /\ tags[i].p = tags[j].p
                                   /\ int(tags[i].num) < int(tags[j].num)

\* a shrunk range: a page left outside it holds a wrong problem, two pages
\* inside it have wrong problems, and one of them has both 9 and 10 wrong
C9_Witness ==
    /\ range_set(state)
    /\ last.op = "home_save"
    /\ \E pk \in (DOMAIN state.pages) \ listed(state) :
          \E k \in DOMAIN state.pages[pk].problems :
             state.pages[pk].problems[k].status = "wrong"
    /\ LET w == build_summary(state).wrong.items
       IN  /\ \E i \in 1..Len(w) : \E j \in 1..Len(w) : w[i].p < w[j].p
           /\ \E i \in 1..Len(w) : \E j \in 1..Len(w) :
                 /\ w[i].p = w[j].p
                 /\ w[i].num = str(9)
                 /\ w[j].num = str(10)
    /\ build_summary(state).ques.none = FALSE

\* C10: every state-changing user action saves within its own handling: when
\* the application waits for the next user action the primary file exists
\* and decodes to the in-memory AppState, unless the last state change was a
\* reset (or nothing was ever saved), and then the state is a fresh AppState.
C10_FileMatchesState ==
    \/ file # None /\ load_state(file) = Some(state)
    \/ file = None /\ state = AppState

C10_Witness ==
    /\ last.op = "problem_memo"
    /\ file # None
    /\ load_state(file) = Some(state)
    /\ state # AppState
====
